---- MODULE Spec2Model ----
(***************************************************************************)
(* Model of src/prefect/cli/get.py: the four `prefect get` command         *)
(* handlers (flows, projects, flow_runs, tasks).  One invocation of the    *)
(* CLI is one behaviour: click parses the options, the handler builds the  *)
(* GraphQL request, hands it either to open_in_playground or to            *)
(* Client().graphql, turns every returned record into a row and echoes the *)
(* table.                                                                  *)
(*                                                                         *)
(* Encoding of Python values: a value that may be None is a sequence of    *)
(* length at most one (None is <<>>, a value v is <<v>>); a dict is a      *)
(* record; a dict whose key order matters (order_by) is a sequence of      *)
(* <<key, value>> pairs; a list is a sequence.                             *)
(***************************************************************************)
EXTENDS Integers, Sequences, FiniteSets, TLC

VARIABLES
    pc,               \* position of the process: idle, build, dispatch, result, loop, done, failed
    cmd,              \* the sub-command invoked
    argv,             \* the options as typed on the command line
    opts,             \* the handler's parameters, after click applied its defaults
    query,            \* the handler's local `query`
    playgroundCalls,  \* requests handed to open_in_playground, in order
    clientCalls,      \* requests handed to Client().graphql, in order
    result,           \* the handler's local `result`
    data,             \* the list iterated by the for loop (flow_data, project_data, ...)
    i,                \* index of the next record of the for loop (1-based)
    output,           \* the handler's local `output`
    converted,        \* every call made to a pendulum converter: <<which, timestamp>>
    stdout,           \* lines written by click.echo
    exitCode          \* None while running, then the process exit status

vars == <<pc, cmd, argv, opts, query, playgroundCalls, clientCalls, result, data,
          i, output, converted, stdout, exitCode>>

\* Largest number of records in a response.
MaxRecords == 3

None == <<>>
Some(v) == <<v>>
Optional(S) == {None} \cup {Some(v) : v \in S}

Commands == {"flows", "projects", "flow_runs", "tasks"}

\* Values the options are drawn from.
Names == {"My-Flow"}
Projects == {"My-Project"}
Versions == {3}
LimitValues == {-1, 0, 25}

\* click's default for --limit.
DefaultLimit == 10

(***************************************************************************)
(* Collaborators, modelled at their call sites.                            *)
(***************************************************************************)
EnumValue(s) == [enum |-> s]

\* with_args(name, arguments): the request key carrying the entity and its arguments.
with_args(entity, args) == [entity |-> entity, args |-> args]

\* Timestamps the server may send, and what pendulum.parse makes of them.
ParseTable ==
    ("2019-08-01T09:00:00+00:00" :> [date |-> "2019-08-01", time |-> "09:00:00", day |-> 1]) @@
    ("2019-08-03T17:30:00+00:00" :> [date |-> "2019-08-03", time |-> "17:30:00", day |-> 3])

Timestamps == DOMAIN ParseTable
BadTimestamp == "not-a-date"

\* The day on which the command runs.
Now == [date |-> "2019-08-04", time |-> "09:00:00", day |-> 4]

parse_ok(s) == s \in DOMAIN ParseTable
parse(s) == ParseTable[s]

diff_for_humans_plural(dt) == ToString(Now.day - dt.day) \o " days ago"

diff_for_humans(dt) ==
    IF Now.day - dt.day = 1 THEN "1 day ago" ELSE diff_for_humans_plural(dt)

to_datetime_string(dt) == dt.date \o " " \o dt.time

\* Mutant: an empty table prints nothing.
tabulate_skips_empty(rows, headers) == IF rows = << >> THEN << >> ELSE <<headers>> \o rows

\* tabulate(rows, headers=..., tablefmt="plain"): the header line, then one line per row.
tabulate(rows, headers) == <<headers>> \o rows

(***************************************************************************)
(* The query builders: the `query` dict each handler constructs.           *)
(***************************************************************************)
flows_distinct_on(all_versions) ==
    IF all_versions THEN None ELSE Some(EnumValue("name"))

flows_where(name, version, project) ==
    [_and |-> [name    |-> [_eq |-> name],
               version |-> [_eq |-> version],
               project |-> [name |-> [_eq |-> project]]]]

flows_query(name, version, project, limit, all_versions) ==
    [query |->
        [key |-> with_args("flow",
                    [where       |-> flows_where(name, version, project),
                     order_by    |-> << <<"name", EnumValue("asc")>>,
                                        <<"version", EnumValue("desc")>> >>,
                     distinct_on |-> flows_distinct_on(all_versions),
                     limit       |-> limit]),
         selection |-> {<<"name">>, <<"version">>, <<"project", "name">>, <<"created">>}]]

projects_query(name) ==
    [query |->
        [key |-> with_args("project",
                    [where    |-> [_and |-> [name |-> [_eq |-> name]]],
                     order_by |-> << <<"name", EnumValue("asc")>> >>]),
         selection |-> {<<"name">>, <<"created">>, <<"description">>,
                        <<"flows_aggregate", "aggregate", "count">>}]]

\* Mutant: the order key does not follow --started.
flow_runs_order_created(started) == << <<"created", EnumValue("desc")>> >>

flow_runs_order(started) ==
    IF started THEN << <<"start_time", EnumValue("desc")>> >>
               ELSE << <<"created", EnumValue("desc")>> >>

flow_runs_where(flow, project, started) ==
    IF started
    THEN [_and |-> [flow |-> [_and |-> [name    |-> [_eq |-> flow],
                                        project |-> [name |-> [_eq |-> project]]]],
                    start_time |-> [_is_null |-> FALSE]]]
    ELSE [flow |-> [_and |-> [name    |-> [_eq |-> flow],
                              project |-> [name |-> [_eq |-> project]]]]]

flow_runs_query(limit, flow, project, started) ==
    [query |->
        [key |-> with_args("flow_run",
                    [where    |-> flow_runs_where(flow, project, started),
                     limit    |-> limit,
                     order_by |-> flow_runs_order(started)]),
         selection |-> {<<"flow", "name">>, <<"created">>, <<"state">>, <<"name">>,
                        <<"duration">>, <<"start_time">>}]]

tasks_where(name, flow_name, flow_version, project) ==
    [_and |-> [name |-> [_eq |-> name],
               flow |-> [name    |-> [_eq |-> flow_name],
                         project |-> [name |-> [_eq |-> project]],
                         version |-> [_eq |-> flow_version]]]]

tasks_query(name, flow_name, flow_version, project, limit) ==
    [query |->
        [key |-> with_args("task",
                    [where    |-> tasks_where(name, flow_name, flow_version, project),
                     limit    |-> limit,
                     order_by |-> << <<"created", EnumValue("desc")>> >>]),
         selection |-> {<<"name">>, <<"created">>, <<"flow", "name">>, <<"flow", "version">>,
                        <<"mapped">>, <<"type">>}]]

(***************************************************************************)
(* Response records.  Each command has two well-formed records and two     *)
(* malformed ones (a field is missing; a timestamp does not parse).        *)
(***************************************************************************)
T1 == "2019-08-01T09:00:00+00:00"
T2 == "2019-08-03T17:30:00+00:00"

FlowRecords ==
    { [name |-> "My-Flow", version |-> 3, project |-> [name |-> "My-Project"], created |-> T1],
      [name |-> "Test-Flow", version |-> 1, project |-> [name |-> "New-Proj"], created |-> T2],
      [name |-> "My-Flow", version |-> 3, project |-> [name |-> "My-Project"]],
      [name |-> "My-Flow", version |-> 3, project |-> [name |-> "My-Project"],
       created |-> BadTimestamp] }

ProjectRecords ==
    { [name |-> "My-Project", created |-> T1, description |-> "first",
       flows_aggregate |-> [aggregate |-> [count |-> 2]]],
      [name |-> "New-Proj", created |-> T2, description |-> "second",
       flows_aggregate |-> [aggregate |-> [count |-> 0]]],
      [name |-> "My-Project", created |-> T1, description |-> "first",
       flows_aggregate |-> [aggregate |-> [total |-> 2]]],
      [name |-> "My-Project", created |-> BadTimestamp, description |-> "first",
       flows_aggregate |-> [aggregate |-> [count |-> 2]]] }

FlowRunRecords ==
    { [name |-> "run-a", flow |-> [name |-> "My-Flow"], state |-> "Scheduled", created |-> T1,
       start_time |-> None, duration |-> None],
      [name |-> "run-b", flow |-> [name |-> "Test-Flow"], state |-> "Success", created |-> T1,
       start_time |-> Some(T2), duration |-> Some("00:00:05")],
      [name |-> "run-a", flow |-> [name |-> "My-Flow"], created |-> T1,
       start_time |-> None, duration |-> None],
      [name |-> "run-b", flow |-> [name |-> "Test-Flow"], state |-> "Success", created |-> T1,
       start_time |-> Some(BadTimestamp), duration |-> Some("00:00:05")] }

TaskRecords ==
    { [name |-> "first_task", flow |-> [name |-> "Test-Flow", version |-> 1], created |-> T1,
       mapped |-> FALSE, type |-> "FunctionTask"],
      [name |-> "second_task", flow |-> [name |-> "Test-Flow", version |-> 1], created |-> T2,
       mapped |-> TRUE, type |-> "FunctionTask"],
      [name |-> "first_task", flow |-> [name |-> "Test-Flow"], created |-> T1,
       mapped |-> FALSE, type |-> "FunctionTask"],
      [name |-> "first_task", flow |-> [name |-> "Test-Flow", version |-> 1],
       created |-> BadTimestamp, mapped |-> FALSE, type |-> "FunctionTask"] }

Records(c) ==
    CASE c = "flows"     -> FlowRecords
      [] c = "projects"  -> ProjectRecords
      [] c = "flow_runs" -> FlowRunRecords
      [] c = "tasks"     -> TaskRecords

\* Sequences of at most n elements of S.
SeqUpTo(S, n) == UNION { [1..k -> S] : k \in 0..n }

\* The attribute of result.data that holds the records.
entity(c) ==
    CASE c = "flows"     -> "flow"
      [] c = "projects"  -> "project"
      [] c = "flow_runs" -> "flow_run"
      [] c = "tasks"     -> "task"

\* What Client().graphql may return: a result with data, or one without (server errors).
Results(c) ==
    { [data |-> (entity(c) :> recs)] : recs \in SeqUpTo(Records(c), MaxRecords) }
        \cup { [errors |-> "server error"] }

(***************************************************************************)
(* Row construction: the body of each handler's for loop.  *_calls is the  *)
(* sequence of converter calls the body makes (converter, argument);       *)
(* *_ok says that every attribute read exists and every converted value    *)
(* parses; *_row is the list appended to output.                           *)
(***************************************************************************)
call(fn, arg) == [fn |-> fn, arg |-> arg]
calls_ok(calls) == \A k \in 1..Len(calls) : calls[k].arg # None /\ parse_ok(calls[k].arg[1])

flows_fields_ok(item) ==
    /\ {"name", "version", "project", "created"} \subseteq DOMAIN item
    /\ "name" \in DOMAIN item.project
flows_calls(item) == << call("diff_for_humans", Some(item.created)) >>
\* Mutant: the flow name and the project name change places.
flows_row_swapped(item) ==
    << item.project.name, item.version, item.name, diff_for_humans(parse(item.created)) >>

flows_row(item) ==
    << item.name, item.version, item.project.name, diff_for_humans(parse(item.created)) >>

projects_fields_ok(item) ==
    /\ {"name", "flows_aggregate", "created", "description"} \subseteq DOMAIN item
    /\ "aggregate" \in DOMAIN item.flows_aggregate
    /\ "count" \in DOMAIN item.flows_aggregate.aggregate
projects_calls(item) == << call("diff_for_humans", Some(item.created)) >>
projects_row(item) ==
    << item.name, item.flows_aggregate.aggregate.count,
       diff_for_humans(parse(item.created)), item.description >>

\* Mutant: the start time is converted whether it is null or not.
start_time_always(item) == TRUE

\* `if item.start_time`: a timestamp the server sends is null or a non-empty string.
start_time_truthy(item) == item.start_time # None

flow_runs_start_time(item) ==
    IF start_time_truthy(item)
    THEN Some(to_datetime_string(parse(item.start_time[1])))
    ELSE None

flow_runs_fields_ok(item) ==
    /\ {"start_time", "name", "flow", "state", "created", "duration"} \subseteq DOMAIN item
    /\ "name" \in DOMAIN item.flow
flow_runs_calls(item) ==
    (IF start_time_truthy(item)
     THEN << call("to_datetime_string", item.start_time) >> ELSE << >>)
    \o << call("diff_for_humans", Some(item.created)) >>
flow_runs_row(item) ==
    << item.name, item.flow.name, item.state, diff_for_humans(parse(item.created)),
       flow_runs_start_time(item), item.duration >>

tasks_fields_ok(item) ==
    /\ {"name", "flow", "created", "mapped", "type"} \subseteq DOMAIN item
    /\ {"name", "version"} \subseteq DOMAIN item.flow
tasks_calls(item) == << call("diff_for_humans", Some(item.created)) >>
tasks_row(item) ==
    << item.name, item.flow.name, item.flow.version,
       diff_for_humans(parse(item.created)), item.mapped, item.type >>

fields_ok(c, item) ==
    CASE c = "flows"     -> flows_fields_ok(item)
      [] c = "projects"  -> projects_fields_ok(item)
      [] c = "flow_runs" -> flow_runs_fields_ok(item)
      [] c = "tasks"     -> tasks_fields_ok(item)

calls(c, item) ==
    CASE c = "flows"     -> flows_calls(item)
      [] c = "projects"  -> projects_calls(item)
      [] c = "flow_runs" -> flow_runs_calls(item)
      [] c = "tasks"     -> tasks_calls(item)

row(c, item) ==
    CASE c = "flows"     -> flows_row(item)
      [] c = "projects"  -> projects_row(item)
      [] c = "flow_runs" -> flow_runs_row(item)
      [] c = "tasks"     -> tasks_row(item)

headers(c) ==
    CASE c = "flows"     -> <<"NAME", "VERSION", "PROJECT NAME", "AGE">>
      [] c = "projects"  -> <<"NAME", "FLOW COUNT", "AGE", "DESCRIPTION">>
      [] c = "flow_runs" -> <<"NAME", "FLOW NAME", "STATE", "AGE", "START TIME", "DURATION">>
      [] c = "tasks"     -> <<"NAME", "FLOW NAME", "FLOW VERSION", "AGE", "MAPPED", "TYPE">>

(***************************************************************************)
(* The process.                                                            *)
(***************************************************************************)
Init ==
    /\ pc = "idle"
    /\ cmd = "none"
    /\ argv = None
    /\ opts = None
    /\ query = None
    /\ playgroundCalls = << >>
    /\ clientCalls = << >>
    /\ result = None
    /\ data = << >>
    /\ i = 0
    /\ output = << >>
    /\ converted = << >>
    /\ stdout = << >>
    /\ exitCode = None

\* Mutant: a limit below 1 is raised to 1.
click_default_clamped(given, default) ==
    IF given = None THEN default ELSE IF given[1] < 1 THEN 1 ELSE given[1]

\* click: an option that was not given takes its declared default.
click_default(given, default) == IF given = None THEN default ELSE given[1]

Enter(c, given, params) ==
    /\ pc = "idle"
    /\ cmd' = c
    /\ argv' = given
    /\ opts' = params
    /\ pc' = "build"
    /\ UNCHANGED <<query, playgroundCalls, clientCalls, result, data, i, output,
                   converted, stdout, exitCode>>

\* `prefect get flows [--name] [--version] [--project] [--limit] [--all-versions] [--playground]`
InvokeFlows ==
    \E name \in Optional(Names), version \in Optional(Versions),
       project \in Optional(Projects), limit \in Optional(LimitValues),
       all_versions \in BOOLEAN, playground \in BOOLEAN :
        Enter("flows",
              [name |-> name, version |-> version, project |-> project, limit |-> limit,
               all_versions |-> all_versions, playground |-> playground],
              [name |-> name, version |-> version, project |-> project,
               limit |-> click_default(limit, DefaultLimit),
               all_versions |-> all_versions, playground |-> playground])

\* `prefect get projects [--name] [--playground]`
InvokeProjects ==
    \E name \in Optional(Names), playground \in BOOLEAN :
        Enter("projects",
              [name |-> name, playground |-> playground],
              [name |-> name, playground |-> playground])

\* `prefect get flow-runs [--limit] [--flow] [--project] [--started] [--playground]`
InvokeFlowRuns ==
    \E limit \in Optional(LimitValues), flow \in Optional(Names),
       project \in Optional(Projects), started \in BOOLEAN, playground \in BOOLEAN :
        Enter("flow_runs",
              [limit |-> limit, flow |-> flow, project |-> project, started |-> started,
               playground |-> playground],
              [limit |-> click_default(limit, DefaultLimit), flow |-> flow,
               project |-> project, started |-> started, playground |-> playground])

\* `prefect get tasks [--name] [--flow-name] [--flow-version] [--project] [--limit] [--playground]`
InvokeTasks ==
    \E name \in Optional(Names), flow_name \in Optional(Names),
       flow_version \in Optional(Versions), project \in Optional(Projects),
       limit \in Optional(LimitValues), playground \in BOOLEAN :
        Enter("tasks",
              [name |-> name, flow_name |-> flow_name, flow_version |-> flow_version,
               project |-> project, limit |-> limit, playground |-> playground],
              [name |-> name, flow_name |-> flow_name, flow_version |-> flow_version,
               project |-> project, limit |-> click_default(limit, DefaultLimit),
               playground |-> playground])

Built(q) ==
    /\ pc = "build"
    /\ query' = q
    /\ pc' = "dispatch"
    /\ UNCHANGED <<cmd, argv, opts, playgroundCalls, clientCalls, result, data, i, output,
                   converted, stdout, exitCode>>

BuildFlows ==
    /\ cmd = "flows"
    /\ Built(flows_query(opts.name, opts.version, opts.project, opts.limit,
                         opts.all_versions))

BuildProjects ==
    /\ cmd = "projects"
    /\ Built(projects_query(opts.name))

BuildFlowRuns ==
    /\ cmd = "flow_runs"
    /\ Built(flow_runs_query(opts.limit, opts.flow, opts.project, opts.started))

BuildTasks ==
    /\ cmd = "tasks"
    /\ Built(tasks_query(opts.name, opts.flow_name, opts.flow_version, opts.project,
                         opts.limit))

\* Mutant: the test of the flag is inverted.
use_playground_inverted(o) == ~o.playground

\* `if playground:` the branch the handler takes once the query is built.
use_playground(o) == o.playground

\* if playground: open_in_playground(query); return
OpenInPlayground ==
    /\ pc = "dispatch"
    /\ use_playground(opts)
    /\ playgroundCalls' = Append(playgroundCalls, query)
    /\ pc' = "done"
    /\ exitCode' = Some(0)
    /\ UNCHANGED <<cmd, argv, opts, query, clientCalls, result, data, i, output,
                   converted, stdout>>

\* result = Client().graphql(query), the call returning
ClientReturns ==
    /\ pc = "dispatch"
    /\ ~use_playground(opts)
    /\ clientCalls' = Append(clientCalls, query)
    /\ \E r \in Results(cmd) : result' = r
    /\ pc' = "result"
    /\ UNCHANGED <<cmd, argv, opts, query, playgroundCalls, data, i, output,
                   converted, stdout, exitCode>>

\* Mutant: the exception is swallowed and the process exits 0.
RaiseSwallowed ==
    /\ pc' = "failed"
    /\ exitCode' = Some(0)

\* What an uncaught exception does to the process.
Raise ==
    /\ pc' = "failed"
    /\ exitCode' = Some(1)

\* Mutant: a failed call is tried again.
ClientRaisesRetry ==
    /\ pc = "dispatch"
    /\ ~use_playground(opts)
    /\ Len(clientCalls) < 2
    /\ clientCalls' = Append(clientCalls, query)
    /\ UNCHANGED <<pc, cmd, argv, opts, query, playgroundCalls, result, data, i, output,
                   converted, stdout, exitCode>>

\* result = Client().graphql(query), the call raising
ClientRaises ==
    /\ pc = "dispatch"
    /\ ~use_playground(opts)
    /\ clientCalls' = Append(clientCalls, query)
    /\ Raise
    /\ UNCHANGED <<cmd, argv, opts, query, playgroundCalls, result, data, i, output,
                   converted, stdout>>

\* flow_data = result.data.flow; output = []
ReadData ==
    /\ pc = "result"
    /\ "data" \in DOMAIN result
    /\ data' = result.data[entity(cmd)]
    /\ output' = << >>
    /\ i' = 1
    /\ pc' = "loop"
    /\ UNCHANGED <<cmd, argv, opts, query, playgroundCalls, clientCalls, result,
                   converted, stdout, exitCode>>

\* flow_data = result.data.flow, the attribute missing
ReadDataRaises ==
    /\ pc = "result"
    /\ "data" \notin DOMAIN result
    /\ Raise
    /\ UNCHANGED <<cmd, argv, opts, query, playgroundCalls, clientCalls, result, data, i,
                   output, converted, stdout>>

\* The converter calls made up to and including the first one that raises.
RECURSIVE attempted(_)
attempted(cs) ==
    IF cs = << >> THEN << >>
    ELSE IF calls_ok(<<Head(cs)>>) THEN <<Head(cs)>> \o attempted(Tail(cs))
    ELSE <<Head(cs)>>

row_ok(c, item) == fields_ok(c, item) /\ calls_ok(calls(c, item))

\* One iteration of `for item in flow_data: output.append([...])`
AppendRow ==
    /\ pc = "loop"
    /\ i <= Len(data)
    /\ row_ok(cmd, data[i])
    /\ output' = Append(output, row(cmd, data[i]))
    /\ converted' = converted \o calls(cmd, data[i])
    /\ i' = i + 1
    /\ UNCHANGED <<pc, cmd, argv, opts, query, playgroundCalls, clientCalls, result, data,
                   stdout, exitCode>>

\* One iteration of the loop, an attribute read or pendulum.parse raising
RowRaises ==
    /\ pc = "loop"
    /\ i <= Len(data)
    /\ ~row_ok(cmd, data[i])
    /\ converted' = IF fields_ok(cmd, data[i])
                    THEN converted \o attempted(calls(cmd, data[i]))
                    ELSE converted
    /\ Raise
    /\ UNCHANGED <<cmd, argv, opts, query, playgroundCalls, clientCalls, result, data, i,
                   output, stdout>>

\* click.echo(tabulate(output, headers=[...], tablefmt="plain", ...))
Echo ==
    /\ pc = "loop"
    /\ i > Len(data)
    /\ stdout' = stdout \o tabulate(output, headers(cmd))
    /\ pc' = "done"
    /\ exitCode' = Some(0)
    /\ UNCHANGED <<cmd, argv, opts, query, playgroundCalls, clientCalls, result, data, i,
                   output, converted>>

Next ==
    \/ InvokeFlows \/ InvokeProjects \/ InvokeFlowRuns \/ InvokeTasks
    \/ BuildFlows \/ BuildProjects \/ BuildFlowRuns \/ BuildTasks
    \/ OpenInPlayground
    \/ ClientReturns \/ ClientRaises
    \/ ReadData \/ ReadDataRaises
    \/ AppendRow \/ RowRaises
    \/ Echo

Spec == Init /\ [][Next]_vars

(***************************************************************************)
(* Properties.                                                             *)
(***************************************************************************)
HasQuery == pc \in {"dispatch", "result", "loop", "done", "failed"}
Dispatched == pc \in {"result", "loop", "done", "failed"}
InLoop == i >= 1
Args == query.query.key.args
Where == Args.where

\* The options whose key occurs in the predicate tree w of command c.
FilterKeys(c, w) ==
    CASE c = "flows" ->
            {f \in {"name", "version", "project"} : f \in DOMAIN w._and}
      [] c = "projects" ->
            {f \in {"name"} : f \in DOMAIN w._and}
      [] c = "flow_runs" ->
            LET inner == IF "_and" \in DOMAIN w THEN w._and.flow._and ELSE w.flow._and
            IN  (IF "name" \in DOMAIN inner THEN {"flow"} ELSE {})
                \cup (IF "project" \in DOMAIN inner THEN {"project"} ELSE {})
      [] c = "tasks" ->
            (IF "name" \in DOMAIN w._and THEN {"name"} ELSE {})
            \cup (IF "name" \in DOMAIN w._and.flow THEN {"flow_name"} ELSE {})
            \cup (IF "project" \in DOMAIN w._and.flow THEN {"project"} ELSE {})
            \cup (IF "version" \in DOMAIN w._and.flow THEN {"flow_version"} ELSE {})

\* C1: in every generated request, a filter option that was not supplied has no
\* key in the predicate tree (every key of the tree belongs to a supplied option).
C1_UnsetFilterElided ==
    HasQuery => \A f \in FilterKeys(cmd, Where) : argv[f] # None

\* C2: a flows request carries distinct_on = name when --all-versions is absent
\* and carries no distinct_on key at all when --all-versions is present.
C2_DistinctOnAbsentWhenAllVersions ==
    (HasQuery /\ cmd = "flows") =>
        IF argv.all_versions
        THEN "distinct_on" \notin DOMAIN Args
        ELSE "distinct_on" \in DOMAIN Args /\ Args.distinct_on = Some(EnumValue("name"))

\* Whether the predicate tree w of a flow-runs request constrains start_time.
HasStartTimeClause(w) ==
    \/ "start_time" \in DOMAIN w
    \/ ("_and" \in DOMAIN w /\ "start_time" \in DOMAIN w._and)

\* C3: a flow-runs request has the start_time non-null check and the single order
\* key start_time desc when --started is given, and no start_time clause and the
\* single order key created desc otherwise, whatever --flow, --project and --limit are.
C3_StartedMode ==
    (HasQuery /\ cmd = "flow_runs") =>
        IF argv.started
        THEN /\ "_and" \in DOMAIN Where
             /\ "start_time" \in DOMAIN Where._and
             /\ Where._and.start_time = [_is_null |-> FALSE]
             /\ Args.order_by = << <<"start_time", [enum |-> "desc"]>> >>
        ELSE /\ ~HasStartTimeClause(Where)
             /\ Args.order_by = << <<"created", [enum |-> "desc"]>> >>

C3_Witness ==
    /\ HasQuery /\ cmd = "flow_runs"
    /\ argv.started /\ argv.flow # None /\ argv.limit # None

\* The request the handler of command c builds from parameters o.
RequestFor(c, o) ==
    CASE c = "flows" ->
            flows_query(o.name, o.version, o.project, o.limit, o.all_versions)
      [] c = "projects" -> projects_query(o.name)
      [] c = "flow_runs" -> flow_runs_query(o.limit, o.flow, o.project, o.started)
      [] c = "tasks" ->
            tasks_query(o.name, o.flow_name, o.flow_version, o.project, o.limit)

\* C4: with --playground the playground opener gets the built request exactly once,
\* the client is never called and nothing is printed; without it the opener is
\* never called and the request goes to the client.
C4_DispatchExclusive ==
    /\ ~Dispatched => (playgroundCalls = << >> /\ clientCalls = << >>)
    /\ Dispatched =>
          IF argv.playground
          THEN /\ playgroundCalls = << RequestFor(cmd, opts) >>
               /\ clientCalls = << >>
               /\ stdout = << >>
               /\ pc = "done"
          ELSE /\ playgroundCalls = << >>
               /\ clientCalls = << RequestFor(cmd, opts) >>

C4_Witness ==
    /\ pc = "done" /\ argv.playground
    /\ Len(playgroundCalls) = 1 /\ Len(clientCalls) = 0 /\ Len(stdout) = 0

\* The header row of each command, as the command-line documentation gives it.
HeaderRow(c) ==
    CASE c = "flows"     -> <<"NAME", "VERSION", "PROJECT NAME", "AGE">>
      [] c = "projects"  -> <<"NAME", "FLOW COUNT", "AGE", "DESCRIPTION">>
      [] c = "flow_runs" -> <<"NAME", "FLOW NAME", "STATE", "AGE", "START TIME", "DURATION">>
      [] c = "tasks"     -> <<"NAME", "FLOW NAME", "FLOW VERSION", "AGE", "MAPPED", "TYPE">>

\* C5: in network mode, a response of zero records does not fail; the command goes
\* on to the echo step and ends having printed the header row alone, with exit 0.
C5_EmptyResponse ==
    (InLoop /\ Len(data) = 0) =>
        /\ pc \in {"loop", "done"}
        /\ pc = "loop" => (ENABLED Echo /\ stdout = << >>)
        /\ pc = "done" => (stdout = << HeaderRow(cmd) >> /\ exitCode = Some(0))

C5_Witness ==
    /\ InLoop /\ Len(data) = 0 /\ pc = "done"
    /\ Len(stdout) = 1 /\ exitCode = Some(0)

\* The renderings of the timestamps T1 and T2 on the day the command runs.
Relative(ts) == IF ts = T1 THEN "3 days ago" ELSE "1 day ago"
Absolute(ts) == IF ts = T1 THEN "2019-08-01 09:00:00" ELSE "2019-08-03 17:30:00"

\* The row of a record, cell by cell in the order of the command's headers.
ExpectedRow(c, item) ==
    CASE c = "flows" ->
            [k \in 1..4 |->
                CASE k = 1 -> item.name [] k = 2 -> item.version
                  [] k = 3 -> item.project.name [] k = 4 -> Relative(item.created)]
      [] c = "projects" ->
            [k \in 1..4 |->
                CASE k = 1 -> item.name [] k = 2 -> item.flows_aggregate.aggregate.count
                  [] k = 3 -> Relative(item.created) [] k = 4 -> item.description]
      [] c = "flow_runs" ->
            [k \in 1..6 |->
                CASE k = 1 -> item.name [] k = 2 -> item.flow.name [] k = 3 -> item.state
                  [] k = 4 -> Relative(item.created)
                  [] k = 5 -> IF item.start_time = None THEN None
                              ELSE Some(Absolute(item.start_time[1]))
                  [] k = 6 -> item.duration]
      [] c = "tasks" ->
            [k \in 1..6 |->
                CASE k = 1 -> item.name [] k = 2 -> item.flow.name
                  [] k = 3 -> item.flow.version [] k = 4 -> Relative(item.created)
                  [] k = 5 -> item.mapped [] k = 6 -> item.type]

\* C6: in network mode the rows are built one per record in response order, each
\* row holding the record's fields in header order; when the loop is over there are
\* as many rows as records, and they are what is rendered under the headers.
C6_RowsFollowRecords ==
    (InLoop /\ pc \in {"loop", "done"}) =>
        /\ Len(output) = i - 1
        /\ \A k \in 1..Len(output) : output[k] = ExpectedRow(cmd, data[k])
        /\ pc = "done" =>
              /\ Len(output) = Len(data)
              /\ stdout = << HeaderRow(cmd) >> \o output

C6_Witness ==
    /\ InLoop /\ pc = "done"
    /\ Len(data) >= 2 /\ data[1] # data[2] /\ Len(output) = Len(data)

\* A flow-run record every field of which is present and every timestamp of which parses.
WellFormedRun(item) ==
    /\ DOMAIN item = {"name", "flow", "state", "created", "start_time", "duration"}
    /\ item.created \in {T1, T2}
    /\ item.start_time \in {None, Some(T1), Some(T2)}

WellFormed(c, item) ==
    /\ item \in Records(c)
    /\ "created" \in DOMAIN item
    /\ item.created \in {T1, T2}
    /\ CASE c = "flows"     -> TRUE
         [] c = "projects"  -> "count" \in DOMAIN item.flows_aggregate.aggregate
         [] c = "flow_runs" -> WellFormedRun(item)
         [] c = "tasks"     -> "version" \in DOMAIN item.flow

\* C8: a failure of the client call, of reading the response or of reading a
\* record ends the command failed with a non-zero exit status and nothing
\* printed; output is printed only by a command that ends with exit 0, and such a
\* command met no malformed record.
C8_FailureUncaught ==
    /\ pc = "failed" => (stdout = << >> /\ exitCode = Some(1))
    /\ pc \notin {"done", "failed"} => (stdout = << >> /\ exitCode = None)
    /\ pc = "done" =>
          /\ exitCode = Some(0)
          /\ ~argv.playground =>
                /\ "data" \in DOMAIN result
                /\ \A k \in 1..Len(data) : WellFormed(cmd, data[k])
    /\ (pc = "loop" /\ i <= Len(data) /\ ~WellFormed(cmd, data[i])) =>
          (ENABLED RowRaises /\ ~ENABLED AppendRow)

C8_Witness ==
    /\ pc = "failed" /\ Len(data) = 3 /\ i = 2 /\ Len(output) = 1
    /\ stdout = << >> /\ exitCode = Some(1)

\* C9: the client is called at most once in an execution: not before dispatch, not
\* in playground mode, and exactly once, before any row is built or anything is
\* printed, in network mode, a failed execution included.
C9_ClientCalledOnce ==
    /\ Len(clientCalls) <= 1
    /\ ~Dispatched => clientCalls = << >>
    /\ (Dispatched /\ argv.playground) => clientCalls = << >>
    /\ (Dispatched /\ ~argv.playground) => Len(clientCalls) = 1
    /\ (InLoop \/ output # << >> \/ stdout # << >>) => Len(clientCalls) = 1

C9_Witness ==
    /\ pc = "failed" /\ ~argv.playground /\ Len(clientCalls) = 1 /\ Len(output) >= 1

\* The value of --limit the request is expected to carry.
SuppliedLimit == IF argv.limit = None THEN 10 ELSE argv.limit[1]

\* C10 as stated: every builder, projects included, puts the supplied limit (10 when
\* none is given) in the request unchanged.
C10_EveryBuilderHasLimit ==
    HasQuery =>
        /\ "limit" \in DOMAIN argv
        /\ "limit" \in DOMAIN Args
        /\ Args.limit = SuppliedLimit

\* C10 amended: the flows, flow-runs and tasks builders put the supplied limit (10
\* when none is given; zero and negative values included) in the request unchanged;
\* the projects command has no --limit option and its request has no limit.
C10_LimitUnchanged ==
    HasQuery =>
        IF cmd = "projects"
        THEN "limit" \notin DOMAIN argv /\ "limit" \notin DOMAIN Args
        ELSE "limit" \in DOMAIN Args /\ Args.limit = SuppliedLimit

C10_Witness ==
    /\ HasQuery /\ cmd = "tasks"
    /\ argv.limit = Some(-1) /\ Args.limit = -1

====
